---- MODULE Spec2Model ----
(***************************************************************************)
(* Model of the fitness tracking watch: the Workout session object and the *)
(* Wearer aggregate (day-bucketed step / calorie stores, heart-rate        *)
(* streams, and the N-day statistics queries).                             *)
(*                                                                         *)
(* JavaScript values are encoded as follows.                               *)
(*   null            the empty tuple Null; a nullable field holds Null or  *)
(*                   the one-element tuple <<v>>                           *)
(*   undefined prop. the record simply has no such field                   *)
(*   number          an integer; the result of a division is the record    *)
(*                   [num, den] in lowest terms, x/0 being Infinity        *)
(*                   (den = 0, num = 1) and 0/0 being NaN (den = 0,        *)
(*                   num = 0)                                              *)
(*   thrown error    outcome "TypeError" of the call                       *)
(***************************************************************************)
EXTENDS Integers, Sequences, FiniteSets, TLC

VARIABLES workoutInstance, stepsData, caloriesBurnedData, heartRateData,
          isResting, lastCall

wearerVars == <<workoutInstance, stepsData, caloriesBurnedData, heartRateData, isResting>>
vars == <<workoutInstance, stepsData, caloriesBurnedData, heartRateData, isResting, lastCall>>

-----------------------------------------------------------------------------
(* Bounds of the model *)

\* completed workouts recorded by one wearer in the life-cycle specification
MaxWorkouts == 2
\* heart-rate samples recorded by one wearer in the life-cycle specification
MaxHeartRate == 2
\* last calendar day (days since the epoch) on which a fixture may start
MaxDay == 1

\* completed workouts in the history a statistics specification starts from
MaxHistory == 4
\* last calendar day on which a workout of such a history may start
MaxStatsDay == 4
\* largest N-day period the queries are called with
MaxPeriod == 5

MaxBatch == 3

(* Program constants *)

secondsPerDay == 86400
secondsPerSample == 60

Null == <<>>

-----------------------------------------------------------------------------
(* Numbers *)

RECURSIVE Gcd(_, _)
Gcd(a, b) == IF b = 0 THEN a ELSE Gcd(b, a % b)

\* the JavaScript number a / b for integers a >= 0, b >= 0
Div(a, b) ==
  IF b = 0 THEN [num |-> IF a = 0 THEN 0 ELSE 1, den |-> 0]
  ELSE LET g == Gcd(a, b) IN [num |-> a \div g, den |-> b \div g]

Num(n) == [num |-> n, den |-> 1]
NaN == [num |-> 0, den |-> 0]

RECURSIVE Sum(_)
Sum(s) == IF s = <<>> THEN 0 ELSE Head(s) + Sum(Tail(s))

-----------------------------------------------------------------------------
(* Inputs: the simulated watch data handed to startWorkout *)

WorkoutTypes == {"walk", "run"}
StartTimes == {d * secondsPerDay + o : d \in 0..MaxDay, o \in {0}} \cup {secondsPerSample}
\* every fixture carries workoutId, workoutType, startTime and endTime; either
\* sample list may be absent (testStepsStats passes no caloriesBurnedData)
WithField(r, f, v) == [g \in DOMAIN r \cup {f} |-> IF g = f THEN v ELSE r[g]]

FixtureHead(workoutType, startTime) ==
  [workoutId |-> 1, workoutType |-> workoutType, startTime |-> startTime,
   endTime |-> startTime + 600]

SimulatedWatchData ==
  UNION { { WithField(FixtureHead("walk", s), "stepsData", <<1, 2>>),
            WithField(WithField(FixtureHead("run", s), "caloriesBurnedData", <<2, 3>>),
                      "stepsData", <<4>>) } : s \in StartTimes }

\* the heart-rate samples handed to storeHeartRateData
HeartRateSamples ==
  { [timeWhenMeasured |-> 90, heartRate |-> 80],
    [timeWhenMeasured |-> secondsPerDay + 30, heartRate |-> 60] }

\* the argument of the Wearer constructor: nothing, or a heart-rate batch
ConstructorData ==
  { Null } \cup { <<[heartRateData |-> [startTime |-> secondsPerDay - secondsPerSample, heartRate |-> hr]]>> :
                    hr \in { <<70>> } }

-----------------------------------------------------------------------------
(* class Workout *)

addCaloriesBurned(w, caloriesData) ==
  [w EXCEPT !.caloriesBurned = @ + caloriesData.additionalCaloriesBurned]

\* mutant: "=" for "+=", the total is the last sample
addSteps_Overwrite(w, stepsDatum) ==
  [w EXCEPT !.steps = stepsDatum.additionalSteps]

addSteps(w, stepsDatum) ==
  [w EXCEPT !.steps = @ + stepsDatum.additionalSteps]

startWorkoutRecording(w) ==
  LET data == w.simulatedWatchData
  IN  [w EXCEPT !.workoutType = data.workoutType, !.startTime = data.startTime]

RECURSIVE forEachCalories(_, _)
forEachCalories(w, list) ==
  IF list = <<>> THEN w
  ELSE forEachCalories(addCaloriesBurned(w, [additionalCaloriesBurned |-> Head(list)]), Tail(list))

RECURSIVE forEachSteps(_, _)
forEachSteps(w, list) ==
  IF list = <<>> THEN w
  ELSE forEachSteps(addSteps(w, [additionalSteps |-> Head(list)]), Tail(list))

Workout_processSimulatedData(w) ==
  LET data == w.simulatedWatchData
      w1 == IF "caloriesBurnedData" \in DOMAIN data
            THEN forEachCalories(w, data.caloriesBurnedData) ELSE w
  IN  IF "stepsData" \in DOMAIN data THEN forEachSteps(w1, data.stepsData) ELSE w1

\* mutant: the constructor also takes workoutId and endTime from the fixture
Workout_IdentifiedAtStart(simulatedWatchData) ==
  Workout_processSimulatedData(
    startWorkoutRecording(
      [workoutId |-> <<simulatedWatchData.workoutId>>, workoutType |-> "", startTime |-> 0,
       endTime |-> <<simulatedWatchData.endTime>>,
       caloriesBurned |-> 0, steps |-> 0, simulatedWatchData |-> simulatedWatchData]))

\* new Workout(simulatedWatchData); workoutType and startTime are null only
\* until startWorkoutRecording runs inside the constructor
Workout(simulatedWatchData) ==
  Workout_processSimulatedData(
    startWorkoutRecording(
      [workoutId |-> Null, workoutType |-> "", startTime |-> 0, endTime |-> Null,
       caloriesBurned |-> 0, steps |-> 0, simulatedWatchData |-> simulatedWatchData]))

finishWorkoutRecording(w) ==
  LET data == w.simulatedWatchData
  IN  [w EXCEPT !.workoutId = <<data.workoutId>>, !.endTime = <<data.endTime>>]

getWorkoutSummary(w) ==
  [workoutId |-> w.workoutId, workoutType |-> w.workoutType, startTime |-> w.startTime,
   endTime |-> w.endTime, caloriesBurned |-> w.caloriesBurned, steps |-> w.steps]

-----------------------------------------------------------------------------
(* class Wearer: state changing methods, as functions of the object's fields *)

Self == [workoutInstance |-> workoutInstance, stepsData |-> stepsData,
         caloriesBurnedData |-> caloriesBurnedData, heartRateData |-> heartRateData,
         isResting |-> isResting]

DataField(dataCategory) ==
  IF dataCategory = "steps" THEN "stepsData" ELSE "caloriesBurnedData"

\* mutant: a same-day sample replaces the bucket's value instead of adding to it
storeData_Overwrite(this, newData, dataCategory) ==
  LET daysSinceUnixEpoch == newData.startTime \div secondsPerDay
      source == this[DataField(dataCategory)]
      n == Len(source.summary)
      merge == n > 0 /\ source.summary[n].daysSinceUnixEpoch = daysSinceUnixEpoch
      payload == IF dataCategory = "caloriesBurned"
                 THEN [daysSinceUnixEpoch |-> daysSinceUnixEpoch,
                       caloriesBurned |-> newData.caloriesBurned,
                       workoutType |-> newData.workoutType]
                 ELSE [daysSinceUnixEpoch |-> daysSinceUnixEpoch, steps |-> newData.steps]
      summary == IF merge
                 THEN [source.summary EXCEPT ![n][dataCategory] = newData[dataCategory]]
                 ELSE Append(source.summary, payload)
  IN  [this EXCEPT ![DataField(dataCategory)] =
         [summary |-> summary, rawData |-> Append(source.rawData, newData)]]

\* mutant: every sample gets a bucket of its own
storeData_NoMerge(this, newData, dataCategory) ==
  LET daysSinceUnixEpoch == newData.startTime \div secondsPerDay
      source == this[DataField(dataCategory)]
      payload == IF dataCategory = "caloriesBurned"
                 THEN [daysSinceUnixEpoch |-> daysSinceUnixEpoch,
                       caloriesBurned |-> newData.caloriesBurned,
                       workoutType |-> newData.workoutType]
                 ELSE [daysSinceUnixEpoch |-> daysSinceUnixEpoch, steps |-> newData.steps]
  IN  [this EXCEPT ![DataField(dataCategory)] =
         [summary |-> Append(source.summary, payload),
          rawData |-> Append(source.rawData, newData)]]

\* mutant: a same-day merge re-tags the calorie bucket with the new workout's type
storeData_Retags(this, newData, dataCategory) ==
  LET daysSinceUnixEpoch == newData.startTime \div secondsPerDay
      source == this[DataField(dataCategory)]
      n == Len(source.summary)
      merge == n > 0 /\ source.summary[n].daysSinceUnixEpoch = daysSinceUnixEpoch
      payload == IF dataCategory = "caloriesBurned"
                 THEN [daysSinceUnixEpoch |-> daysSinceUnixEpoch,
                       caloriesBurned |-> newData.caloriesBurned,
                       workoutType |-> newData.workoutType]
                 ELSE [daysSinceUnixEpoch |-> daysSinceUnixEpoch, steps |-> newData.steps]
      summary == IF merge
                 THEN IF dataCategory = "caloriesBurned"
                      THEN [source.summary EXCEPT ![n].caloriesBurned = @ + newData.caloriesBurned,
                                                  ![n].workoutType = newData.workoutType]
                      ELSE [source.summary EXCEPT ![n][dataCategory] = @ + newData[dataCategory]]
                 ELSE Append(source.summary, payload)
  IN  [this EXCEPT ![DataField(dataCategory)] =
         [summary |-> summary, rawData |-> Append(source.rawData, newData)]]

storeData(this, newData, dataCategory) ==
  LET daysSinceUnixEpoch == newData.startTime \div secondsPerDay
      source == this[DataField(dataCategory)]
      n == Len(source.summary)
      merge == n > 0 /\ source.summary[n].daysSinceUnixEpoch = daysSinceUnixEpoch
      payload == IF dataCategory = "caloriesBurned"
                 THEN [daysSinceUnixEpoch |-> daysSinceUnixEpoch,
                       caloriesBurned |-> newData.caloriesBurned,
                       workoutType |-> newData.workoutType]
                 ELSE [daysSinceUnixEpoch |-> daysSinceUnixEpoch, steps |-> newData.steps]
      summary == IF merge
                 THEN [source.summary EXCEPT ![n][dataCategory] = @ + newData[dataCategory]]
                 ELSE Append(source.summary, payload)
  IN  [this EXCEPT ![DataField(dataCategory)] =
         [summary |-> summary, rawData |-> Append(source.rawData, newData)]]

storeHeartRateData(this, newHeartRateData) ==
  LET daysSinceUnixEpoch == newHeartRateData.timeWhenMeasured \div secondsPerDay
      newData == [timeWhenMeasured |-> newHeartRateData.timeWhenMeasured,
                  heartRate |-> newHeartRateData.heartRate,
                  daysSinceUnixEpoch |-> daysSinceUnixEpoch]
      dataCategory == IF this.isResting THEN "resting" ELSE "active"
  IN  [this EXCEPT !.heartRateData.rawData[dataCategory] = Append(@, newData)]

RECURSIVE forEachHeartRate(_, _, _)
forEachHeartRate(this, timeWhenMeasured, list) ==
  IF list = <<>> THEN this
  ELSE forEachHeartRate(
         storeHeartRateData(this, [timeWhenMeasured |-> timeWhenMeasured, heartRate |-> Head(list)]),
         timeWhenMeasured + secondsPerSample, Tail(list))

processSimulatedData(this, simulatedWatchData) ==
  IF "heartRateData" \in DOMAIN simulatedWatchData
  THEN forEachHeartRate(this, simulatedWatchData.heartRateData.startTime,
                        simulatedWatchData.heartRateData.heartRate)
  ELSE this

\* new Wearer(simulatedWatchData); the argument is Null when none is passed
Wearer(simulatedWatchData) ==
  LET this == [workoutInstance |-> Null,
               stepsData |-> [summary |-> <<>>, rawData |-> <<>>],
               caloriesBurnedData |-> [summary |-> <<>>, rawData |-> <<>>],
               heartRateData |-> [rawData |-> [resting |-> <<>>, active |-> <<>>]],
               isResting |-> TRUE]
  IN  IF simulatedWatchData # Null THEN processSimulatedData(this, simulatedWatchData[1])
      ELSE this

\* mutant: no guard, a second start replaces the session in progress
startWorkout_Replaces(this, simulatedWatchData) ==
  [this |-> [this EXCEPT !.isResting = FALSE,
                          !.workoutInstance = <<Workout(simulatedWatchData)>>],
   console |-> IF this.workoutInstance = Null THEN "" ELSE "There is a workout in progress"]

\* mutant: the resting flag is not cleared when a workout starts
startWorkout_KeepsResting(this, simulatedWatchData) ==
  IF this.workoutInstance = Null
  THEN [this |-> [this EXCEPT !.workoutInstance = <<Workout(simulatedWatchData)>>],
        console |-> ""]
  ELSE [this |-> this, console |-> "There is a workout in progress"]

\* the object after the call, and the line the call writes to the console
startWorkout(this, simulatedWatchData) ==
  IF this.workoutInstance = Null
  THEN [this |-> [this EXCEPT !.isResting = FALSE,
                               !.workoutInstance = <<Workout(simulatedWatchData)>>],
        console |-> ""]
  ELSE [this |-> this, console |-> "There is a workout in progress"]

\* mutant: without a session an empty summary is stored all the same
endWorkout_StoresAlways(this) ==
  LET w == IF this.workoutInstance # Null THEN this.workoutInstance[1]
           ELSE [workoutId |-> Null, workoutType |-> "", startTime |-> 0, endTime |-> Null,
                 caloriesBurned |-> 0, steps |-> 0,
                 simulatedWatchData |-> [workoutId |-> 0, endTime |-> 0]]
      finished == finishWorkoutRecording(w)
      summary == getWorkoutSummary(finished)
      t2 == storeData([this EXCEPT !.isResting = TRUE], summary, "steps")
      t3 == storeData(t2, summary, "caloriesBurned")
  IN  [this |-> [t3 EXCEPT !.workoutInstance = Null],
       summary |-> IF this.workoutInstance # Null THEN <<summary>> ELSE Null,
       console |-> IF this.workoutInstance # Null THEN "" ELSE "There is no workout in progress"]

\* mutant: the session is not cleared when the workout ends
endWorkout_KeepsSession(this) ==
  IF this.workoutInstance # Null
  THEN LET finished == finishWorkoutRecording(this.workoutInstance[1])
           summary == getWorkoutSummary(finished)
           t1 == [this EXCEPT !.isResting = TRUE, !.workoutInstance = <<finished>>]
           t2 == storeData(t1, summary, "steps")
           t3 == storeData(t2, summary, "caloriesBurned")
       IN  [this |-> t3, summary |-> <<summary>>, console |-> ""]
  ELSE [this |-> this, summary |-> Null, console |-> "There is no workout in progress"]

\* mutant: the summary is stored for steps only
endWorkout_StepsOnly(this) ==
  IF this.workoutInstance # Null
  THEN LET finished == finishWorkoutRecording(this.workoutInstance[1])
           summary == getWorkoutSummary(finished)
           t1 == [this EXCEPT !.isResting = TRUE, !.workoutInstance = <<finished>>]
           t2 == storeData(t1, summary, "steps")
       IN  [this |-> [t2 EXCEPT !.workoutInstance = Null],
            summary |-> <<summary>>, console |-> ""]
  ELSE [this |-> this, summary |-> Null, console |-> "There is no workout in progress"]

\* the object after the call, the summary returned (Null when the call returns
\* undefined) and the line the call writes to the console
endWorkout(this) ==
  IF this.workoutInstance # Null
  THEN LET finished == finishWorkoutRecording(this.workoutInstance[1])
           summary == getWorkoutSummary(finished)
           t1 == [this EXCEPT !.isResting = TRUE, !.workoutInstance = <<finished>>]
           t2 == storeData(t1, summary, "steps")
           t3 == storeData(t2, summary, "caloriesBurned")
       IN  [this |-> [t3 EXCEPT !.workoutInstance = Null],
            summary |-> <<summary>>, console |-> ""]
  ELSE [this |-> this, summary |-> Null, console |-> "There is no workout in progress"]

-----------------------------------------------------------------------------
(* class Wearer: the statistics queries *)

RatAdd(a, b) ==
  IF a = NaN \/ b = NaN THEN NaN
  ELSE IF a.den = 0 \/ b.den = 0 THEN [num |-> 1, den |-> 0]
  ELSE Div(a.num * b.den + b.num * a.den, a.den * b.den)

RatDivInt(a, n) ==
  IF a.den = 0 THEN a ELSE Div(a.num, a.den * n)

Math(minOrMax, a, b) ==
  IF minOrMax = "min" THEN (IF a <= b THEN a ELSE b) ELSE (IF a >= b THEN a ELSE b)

getDataSummary(this, dataCategory) ==
  IF dataCategory # "heartRate" THEN this[DataField(dataCategory)].summary
  ELSE this.heartRateData

Returns(v, w) == [outcome |-> "number", value |-> v, windows |-> w]
Throws == [outcome |-> "TypeError", value |-> NaN, windows |-> <<>>]

\* mutant: a period counts as complete once it spans at least N days
enoughDataCollected_AtLeast(diff, nDayPeriod) == diff >= nDayPeriod - 1

\* if (diff === nDayPeriod - 1): the test that completes an N day period, the
\* same in the three two-pointer loops
enoughDataCollected(diff, nDayPeriod) == diff = nDayPeriod - 1

\* mutant: the next period starts after the bucket that completed the last one
nextSlowPtr_Skips(slowPtr, fastPtr) == fastPtr + 1

\* mutant: the next period starts where the completed one ended
nextSlowPtr_Disjoint(slowPtr, fastPtr) == fastPtr

\* slowPtr++ after a completed period, the same in the three loops; fastPtr
\* and the running total are then re-seeded from the new slowPtr
nextSlowPtr(slowPtr, fastPtr) == slowPtr + 1

\* The while loop of getMinMaxSteps, one iteration per unfolding. Pointers are
\* the 0-based indices of the source; windows lists, for every pass through
\* the "enough data collected" branch, the pointers and the total it reduced.
RECURSIVE MinMaxLoop(_, _, _, _, _, _, _, _)
MinMaxLoop(stepsSummary, nDayPeriod, minOrMax, minOrMaxSteps, totalSteps, slowPtr, fastPtr, windows) ==
  IF ~(fastPtr < Len(stepsSummary)) THEN Returns(Num(minOrMaxSteps), windows)
  ELSE
    LET diff == stepsSummary[fastPtr + 1].daysSinceUnixEpoch
                  - stepsSummary[slowPtr + 1].daysSinceUnixEpoch
    IN  IF enoughDataCollected(diff, nDayPeriod)
        THEN LET total == totalSteps + stepsSummary[fastPtr + 1].steps
                 seeded == IF minOrMaxSteps = 0 THEN total ELSE minOrMaxSteps
             IN  MinMaxLoop(stepsSummary, nDayPeriod, minOrMax,
                            Math(minOrMax, seeded, total),
                            stepsSummary[nextSlowPtr(slowPtr, fastPtr) + 1].steps,
                            nextSlowPtr(slowPtr, fastPtr), nextSlowPtr(slowPtr, fastPtr) + 1,
                            Append(windows, [slowPtr |-> slowPtr, fastPtr |-> fastPtr, total |-> total]))
        ELSE IF diff < nDayPeriod
        THEN MinMaxLoop(stepsSummary, nDayPeriod, minOrMax, minOrMaxSteps,
                        totalSteps + stepsSummary[fastPtr + 1].steps, slowPtr, fastPtr + 1, windows)
        ELSE MinMaxLoop(stepsSummary, nDayPeriod, minOrMax, minOrMaxSteps,
                        stepsSummary[slowPtr + 2].steps, slowPtr + 1, slowPtr + 2, windows)

\* mutant: the reduction starts from the first bucket instead of 0
getMinMaxSteps_SeededWithFirst(this, nDayPeriod, minOrMax) ==
  LET stepsSummary == getDataSummary(this, "steps")
  IN  IF Len(stepsSummary) = 0 THEN Throws
      ELSE MinMaxLoop(stepsSummary, nDayPeriod, minOrMax, stepsSummary[1].steps,
                      stepsSummary[1].steps, 0, 1, <<>>)

\* mutant: the running total starts at 0 and misses the first bucket
getMinMaxSteps_ZeroTotal(this, nDayPeriod, minOrMax) ==
  LET stepsSummary == getDataSummary(this, "steps")
  IN  IF Len(stepsSummary) = 0 THEN Throws
      ELSE MinMaxLoop(stepsSummary, nDayPeriod, minOrMax, 0, 0, 0, 1, <<>>)

\* this.stepsData is the object {summary, rawData}: it has no length property,
\* so both guards compare undefined with a number and are false
getMinMaxSteps(this, nDayPeriod, minOrMax) ==
  IF "length" \in DOMAIN this.stepsData /\ this.stepsData.length = 0
  THEN Returns(Num(0), <<>>)
  ELSE IF "length" \in DOMAIN this.stepsData /\ this.stepsData.length = 1
  THEN Returns(Num(this.stepsData[0].steps), <<>>)
  ELSE LET stepsSummary == getDataSummary(this, "steps")
       IN  IF Len(stepsSummary) = 0 THEN Throws
           ELSE MinMaxLoop(stepsSummary, nDayPeriod, minOrMax, 0, stepsSummary[1].steps, 0, 1, <<>>)

RECURSIVE AverageStepsLoop(_, _, _, _, _, _, _, _)
AverageStepsLoop(stepsSummary, nDayPeriod, completeNDayPeriods, totalStepsForCompleteNDayPeriods, totalSteps, slowPtr, fastPtr, windows) ==
  IF ~(fastPtr < Len(stepsSummary))
  THEN IF completeNDayPeriods = 0 THEN Returns(Num(0), windows)
       ELSE Returns(Div(totalStepsForCompleteNDayPeriods, completeNDayPeriods), windows)
  ELSE
    LET diff == stepsSummary[fastPtr + 1].daysSinceUnixEpoch
                  - stepsSummary[slowPtr + 1].daysSinceUnixEpoch
    IN  IF enoughDataCollected(diff, nDayPeriod)
        THEN LET total == totalSteps + stepsSummary[fastPtr + 1].steps
             IN  AverageStepsLoop(stepsSummary, nDayPeriod, completeNDayPeriods + 1,
                                  totalStepsForCompleteNDayPeriods + total,
                                  stepsSummary[nextSlowPtr(slowPtr, fastPtr) + 1].steps,
                                  nextSlowPtr(slowPtr, fastPtr), nextSlowPtr(slowPtr, fastPtr) + 1,
                                  Append(windows, [slowPtr |-> slowPtr, fastPtr |-> fastPtr, total |-> total]))
        ELSE IF diff < nDayPeriod
        THEN AverageStepsLoop(stepsSummary, nDayPeriod, completeNDayPeriods,
                              totalStepsForCompleteNDayPeriods,
                              totalSteps + stepsSummary[fastPtr + 1].steps, slowPtr, fastPtr + 1, windows)
        ELSE AverageStepsLoop(stepsSummary, nDayPeriod, completeNDayPeriods,
                              totalStepsForCompleteNDayPeriods,
                              stepsSummary[slowPtr + 2].steps, slowPtr + 1, slowPtr + 2, windows)

\* mutant: the count of complete periods starts at 1
getAverageNumberOfSteps_CountsFromOne(this, nDayPeriod) ==
  LET stepsSummary == getDataSummary(this, "steps")
  IN  IF Len(stepsSummary) = 0 THEN Throws
      ELSE AverageStepsLoop(stepsSummary, nDayPeriod, 1, 0, stepsSummary[1].steps, 0, 1, <<>>)

\* mutant: the running total starts at 0 and misses the first bucket
getAverageNumberOfSteps_ZeroTotal(this, nDayPeriod) ==
  LET stepsSummary == getDataSummary(this, "steps")
  IN  IF Len(stepsSummary) = 0 THEN Throws
      ELSE AverageStepsLoop(stepsSummary, nDayPeriod, 0, 0, 0, 0, 1, <<>>)

getAverageNumberOfSteps(this, nDayPeriod) ==
  IF "length" \in DOMAIN this.stepsData /\ this.stepsData.length = 0
  THEN Returns(Num(0), <<>>)
  ELSE IF "length" \in DOMAIN this.stepsData /\ this.stepsData.length = 1
  THEN Returns(Num(this.stepsData[0].steps), <<>>)
  ELSE LET stepsSummary == getDataSummary(this, "steps")
       IN  IF Len(stepsSummary) = 0 THEN Throws
           ELSE AverageStepsLoop(stepsSummary, nDayPeriod, 0, 0, stepsSummary[1].steps, 0, 1, <<>>)

\* the forEach of getAverageRestingHeartRate; lastSeenDaysSinceUnixEpoch is
\* never reassigned, and a sample of another day is banked against but not
\* itself collected
RECURSIVE HeartRateLoop(_, _, _, _, _)
HeartRateLoop(list, lastSeenDaysSinceUnixEpoch, averageHeartRateData, totalHeartRateBpmInNDayPeriod, countOfDataPointsInNDayPeriod) ==
  IF list = <<>>
  THEN IF countOfDataPointsInNDayPeriod # 0
       THEN Append(averageHeartRateData,
                   Div(totalHeartRateBpmInNDayPeriod, countOfDataPointsInNDayPeriod))
       ELSE averageHeartRateData
  ELSE IF Head(list).daysSinceUnixEpoch = lastSeenDaysSinceUnixEpoch
  THEN HeartRateLoop(Tail(list), lastSeenDaysSinceUnixEpoch, averageHeartRateData,
                     totalHeartRateBpmInNDayPeriod + Head(list).heartRate,
                     countOfDataPointsInNDayPeriod + 1)
  ELSE HeartRateLoop(Tail(list), lastSeenDaysSinceUnixEpoch,
                     Append(averageHeartRateData,
                            Div(totalHeartRateBpmInNDayPeriod, countOfDataPointsInNDayPeriod)),
                     0, 0)

\* arr.reduce((acc, cur, curIndex, arr) => ..., 0)
RECURSIVE Reduce(_, _, _)
Reduce(arr, curIndex, acc) ==
  IF curIndex >= Len(arr) THEN acc
  ELSE LET added == RatAdd(acc, arr[curIndex + 1])
       IN  Reduce(arr, curIndex + 1,
                  IF curIndex = Len(arr) - 1 THEN RatDivInt(added, Len(arr)) ELSE added)

\* mutant: the first sample only seeds the day, the loop starts at the second
getAverageRestingHeartRate_SkipsFirst(this, nDayPeriod) ==
  LET heartRateDataList == getDataSummary(this, "heartRate").rawData.resting
  IN  IF Len(heartRateDataList) = 0 THEN Returns(Num(0), <<>>)
      ELSE Returns(Reduce(HeartRateLoop(Tail(heartRateDataList),
                                        heartRateDataList[1].daysSinceUnixEpoch,
                                        <<>>, 0, 0), 0, Num(0)), <<>>)

getAverageRestingHeartRate(this, nDayPeriod) ==
  LET heartRateDataList == getDataSummary(this, "heartRate").rawData.resting
  IN  IF Len(heartRateDataList) = 0 THEN Returns(Num(0), <<>>)
      ELSE Returns(Reduce(HeartRateLoop(heartRateDataList, heartRateDataList[1].daysSinceUnixEpoch,
                                        <<>>, 0, 0), 0, Num(0)), <<>>)

RECURSIVE CaloriesLoop(_, _, _, _, _, _, _, _, _)
CaloriesLoop(caloriesBurnedDataList, nDayPeriod, completeNDayPeriods, totalCaloriesBurnedForCompleteNDayPeriods, totalCaloriesBurned, countOfDataPointsInNDayPeriod, slowPtr, fastPtr, windows) ==
  IF ~(fastPtr < Len(caloriesBurnedDataList))
  THEN IF completeNDayPeriods = 0 THEN Returns(Num(0), windows)
       ELSE Returns(Div(totalCaloriesBurnedForCompleteNDayPeriods, countOfDataPointsInNDayPeriod),
                    windows)
  ELSE
    LET diff == caloriesBurnedDataList[fastPtr + 1].daysSinceUnixEpoch
                  - caloriesBurnedDataList[slowPtr + 1].daysSinceUnixEpoch
    IN  IF enoughDataCollected(diff, nDayPeriod)
        THEN LET total == totalCaloriesBurned + caloriesBurnedDataList[fastPtr + 1].caloriesBurned
             IN  CaloriesLoop(caloriesBurnedDataList, nDayPeriod, completeNDayPeriods + 1,
                              totalCaloriesBurnedForCompleteNDayPeriods + total,
                              caloriesBurnedDataList[nextSlowPtr(slowPtr, fastPtr) + 1].caloriesBurned,
                              countOfDataPointsInNDayPeriod,
                              nextSlowPtr(slowPtr, fastPtr), nextSlowPtr(slowPtr, fastPtr) + 1,
                              Append(windows, [slowPtr |-> slowPtr, fastPtr |-> fastPtr, total |-> total]))
        ELSE IF diff < nDayPeriod
        THEN CaloriesLoop(caloriesBurnedDataList, nDayPeriod, completeNDayPeriods,
                          totalCaloriesBurnedForCompleteNDayPeriods,
                          totalCaloriesBurned + caloriesBurnedDataList[fastPtr + 1].caloriesBurned,
                          countOfDataPointsInNDayPeriod + 1, slowPtr, fastPtr + 1, windows)
        ELSE CaloriesLoop(caloriesBurnedDataList, nDayPeriod, completeNDayPeriods,
                          totalCaloriesBurnedForCompleteNDayPeriods,
                          caloriesBurnedDataList[slowPtr + 2].caloriesBurned,
                          countOfDataPointsInNDayPeriod, slowPtr + 1, slowPtr + 2, windows)

\* mutant: the count of data points starts at 0
getAverageCaloriesBurnedPerWorkout_CountsFromZero(this, nDayPeriod, workoutType) ==
  LET caloriesBurnedDataList ==
        SelectSeq(getDataSummary(this, "caloriesBurned"), LAMBDA data : data.workoutType = workoutType)
  IN  IF Len(caloriesBurnedDataList) = 0 THEN Throws
      ELSE CaloriesLoop(caloriesBurnedDataList, nDayPeriod, 0, 0,
                        caloriesBurnedDataList[1].caloriesBurned, 0, 0, 1, <<>>)

getAverageCaloriesBurnedPerWorkout(this, nDayPeriod, workoutType) ==
  LET caloriesBurnedDataList ==
        SelectSeq(getDataSummary(this, "caloriesBurned"), LAMBDA data : data.workoutType = workoutType)
  IN  IF Len(caloriesBurnedDataList) = 0 THEN Throws
      ELSE CaloriesLoop(caloriesBurnedDataList, nDayPeriod, 0, 0,
                        caloriesBurnedDataList[1].caloriesBurned, 1, 0, 1, <<>>)

-----------------------------------------------------------------------------
(* The calls made on one wearer *)

NDayPeriods == 2..MaxPeriod
\* the periods asked for in the life-cycle specification
FewPeriods == 2..(MaxDay + 1)

\* what the last call was and what it returned, threw or printed
NoCall ==
  [op |-> "new Wearer", nDayPeriod |-> 0, minOrMax |-> "", workoutType |-> "",
   outcome |-> "undefined", value |-> NaN, windows |-> <<>>,
   summary |-> Null, console |-> "", tests |-> <<>>]

Query(op, nDayPeriod, minOrMax, workoutType, r) ==
  [NoCall EXCEPT !.op = op, !.nDayPeriod = nDayPeriod, !.minOrMax = minOrMax,
                 !.workoutType = workoutType, !.outcome = r.outcome, !.value = r.value,
                 !.windows = r.windows]

Becomes(this) ==
  /\ workoutInstance' = this.workoutInstance
  /\ stepsData' = this.stepsData
  /\ caloriesBurnedData' = this.caloriesBurnedData
  /\ heartRateData' = this.heartRateData
  /\ isResting' = this.isResting

Init ==
  \E simulatedWatchData \in ConstructorData :
    LET this == Wearer(simulatedWatchData)
    IN  /\ workoutInstance = this.workoutInstance
        /\ stepsData = this.stepsData
        /\ caloriesBurnedData = this.caloriesBurnedData
        /\ heartRateData = this.heartRateData
        /\ isResting = this.isResting
        /\ lastCall = NoCall

StartWorkout(simulatedWatchData) ==
  /\ workoutInstance # Null \/ Len(stepsData.rawData) < MaxWorkouts
  /\ LET r == startWorkout(Self, simulatedWatchData)
     IN  /\ Becomes(r.this)
         /\ lastCall' = [NoCall EXCEPT !.op = "startWorkout", !.console = r.console]

EndWorkout ==
  LET r == endWorkout(Self)
  IN  /\ Becomes(r.this)
      /\ lastCall' = [NoCall EXCEPT !.op = "endWorkout", !.summary = r.summary,
                                    !.console = r.console]

StoreHeartRateData(newHeartRateData) ==
  /\ Len(heartRateData.rawData.resting) + Len(heartRateData.rawData.active) < MaxHeartRate
  /\ Becomes(storeHeartRateData(Self, newHeartRateData))
  /\ lastCall' = [NoCall EXCEPT !.op = "storeHeartRateData"]

GetMinMaxSteps(nDayPeriod, minOrMax) ==
  /\ lastCall' = Query("getMinMaxSteps", nDayPeriod, minOrMax, "",
                       getMinMaxSteps(Self, nDayPeriod, minOrMax))
  /\ UNCHANGED wearerVars

GetAverageNumberOfSteps(nDayPeriod) ==
  /\ lastCall' = Query("getAverageNumberOfSteps", nDayPeriod, "", "",
                       getAverageNumberOfSteps(Self, nDayPeriod))
  /\ UNCHANGED wearerVars

GetAverageRestingHeartRate(nDayPeriod) ==
  /\ lastCall' = Query("getAverageRestingHeartRate", nDayPeriod, "", "",
                       getAverageRestingHeartRate(Self, nDayPeriod))
  /\ UNCHANGED wearerVars

GetAverageCaloriesBurnedPerWorkout(nDayPeriod, workoutType) ==
  /\ lastCall' = Query("getAverageCaloriesBurnedPerWorkout", nDayPeriod, "", workoutType,
                       getAverageCaloriesBurnedPerWorkout(Self, nDayPeriod, workoutType))
  /\ UNCHANGED wearerVars

Next ==
  \/ \E simulatedWatchData \in SimulatedWatchData : StartWorkout(simulatedWatchData)
  \/ EndWorkout
  \/ \E newHeartRateData \in HeartRateSamples : StoreHeartRateData(newHeartRateData)

\* the life cycle of one wearer
Spec == Init /\ [][Next]_vars

NextQueries ==
  \/ \E simulatedWatchData \in SimulatedWatchData : StartWorkout(simulatedWatchData)
  \/ EndWorkout
  \/ \E newHeartRateData \in HeartRateSamples : StoreHeartRateData(newHeartRateData)
  \/ \E nDayPeriod \in FewPeriods, minOrMax \in {"min", "max"} : GetMinMaxSteps(nDayPeriod, minOrMax)
  \/ \E nDayPeriod \in FewPeriods : GetAverageNumberOfSteps(nDayPeriod)
  \/ \E nDayPeriod \in {1} : GetAverageRestingHeartRate(nDayPeriod)
  \/ \E nDayPeriod \in FewPeriods, workoutType \in WorkoutTypes :
       GetAverageCaloriesBurnedPerWorkout(nDayPeriod, workoutType)

\* the life cycle with the statistics asked for in any state
SpecQueries == Init /\ [][NextQueries]_vars

-----------------------------------------------------------------------------
(* The step statistics on a wearer that has completed a history of workouts *)

\* the fixtures of testStepsStats: walks that carry step samples only; a walk
\* without step samples totals 0 steps
StepFixtures ==
  LET heads == { [workoutId |-> 1, workoutType |-> "walk", startTime |-> d * secondsPerDay + 300,
                  endTime |-> d * secondsPerDay + 900] : d \in 0..MaxStatsDay }
  IN  heads \cup { WithField(h, "stepsData", <<1, 2>>) : h \in heads }

\* "data is entered in chronological order"
Chronological(history) ==
  \A i \in 1..(Len(history) - 1) : history[i].startTime <= history[i + 1].startTime

StepHistories ==
  UNION { { h \in [1..k -> StepFixtures] : Chronological(h) } : k \in 0..MaxHistory }

\* the wearer after startWorkout / endWorkout for every fixture of the history
RECURSIVE Replay(_, _)
Replay(this, history) ==
  IF history = <<>> THEN this
  ELSE Replay(endWorkout(startWorkout(this, Head(history)).this).this, Tail(history))

InitSteps ==
  \E history \in StepHistories :
    LET this == Replay(Wearer(Null), history)
    IN  /\ workoutInstance = this.workoutInstance
        /\ stepsData = this.stepsData
        /\ caloriesBurnedData = this.caloriesBurnedData
        /\ heartRateData = this.heartRateData
        /\ isResting = this.isResting
        /\ lastCall = NoCall

NextSteps ==
  \/ \E nDayPeriod \in NDayPeriods, minOrMax \in {"min", "max"} : GetMinMaxSteps(nDayPeriod, minOrMax)
  \/ \E nDayPeriod \in NDayPeriods : GetAverageNumberOfSteps(nDayPeriod)

SpecSteps == InitSteps /\ [][NextSteps]_vars

-----------------------------------------------------------------------------
(* Vocabulary of the properties *)

DayOf(time) == time \div secondsPerDay

StrictlyIncreasing(summary) ==
  \A i \in 1..(Len(summary) - 1) :
    summary[i].daysSinceUnixEpoch < summary[i + 1].daysSinceUnixEpoch

\* the total of one field over the raw records whose startTime falls on a day
RECURSIVE TotalOnDay(_, _, _)
TotalOnDay(rawData, field, day) ==
  IF rawData = <<>> THEN 0
  ELSE (IF DayOf(Head(rawData).startTime) = day THEN Head(rawData)[field] ELSE 0)
         + TotalOnDay(Tail(rawData), field, day)

DaysRecorded(rawData) == { DayOf(rawData[i].startTime) : i \in DOMAIN rawData }

MergedByDay(source, field) ==
  /\ Len(source.summary) = Cardinality(DaysRecorded(source.rawData))
  /\ \A i \in DOMAIN source.summary :
       source.summary[i][field] =
         TotalOnDay(source.rawData, field, source.summary[i].daysSinceUnixEpoch)

\* the sum of a fixture's sample list, 0 when the list is absent
SampleTotal(simulatedWatchData, list) ==
  IF list \in DOMAIN simulatedWatchData THEN Sum(simulatedWatchData[list]) ELSE 0

IsPrefix(s, t) == Len(s) <= Len(t) /\ \A i \in DOMAIN s : s[i] = t[i]

-----------------------------------------------------------------------------
(* Properties of the life cycle, checked under Spec *)

\* C1: workouts completed in chronological order leave one bucket per day
\* recorded, and each bucket holds the sum of the totals of that day's
\* workouts: a second workout on the same day is added to the day's bucket,
\* a workout on a later day gets a new bucket.
C1_SameDayMerge ==
  Chronological(stepsData.rawData) =>
    /\ MergedByDay(stepsData, "steps")
    /\ MergedByDay(caloriesBurnedData, "caloriesBurned")

\* two workouts of the same day were completed and share one bucket
C1_Witness ==
  /\ lastCall.op = "endWorkout"
  /\ Len(stepsData.rawData) = 2
  /\ DayOf(stepsData.rawData[1].startTime) = DayOf(stepsData.rawData[2].startTime)
  /\ stepsData.rawData[1].startTime < stepsData.rawData[2].startTime
  /\ Len(stepsData.summary) = 1
  /\ stepsData.summary[1].steps = stepsData.rawData[1].steps + stepsData.rawData[2].steps
  /\ stepsData.rawData[1].steps > 0 /\ stepsData.rawData[2].steps > 0

\* C2: when workouts are completed in non-decreasing startTime order, the
\* steps summary and the calories summary are strictly increasing in
\* daysSinceUnixEpoch.
C2_BucketOrder ==
  Chronological(stepsData.rawData) =>
    /\ StrictlyIncreasing(stepsData.summary)
    /\ StrictlyIncreasing(caloriesBurnedData.summary)

\* two workouts on two days, completed in order, hold two buckets
C2_Witness ==
  /\ lastCall.op = "endWorkout"
  /\ Len(stepsData.rawData) = 2
  /\ Chronological(stepsData.rawData)
  /\ Len(stepsData.summary) = 2
  /\ stepsData.summary[1].daysSinceUnixEpoch < stepsData.summary[2].daysSinceUnixEpoch

\* C3: a startWorkout call made while a workout is in progress changes no
\* field of the wearer (session, stores, streams, resting flag), leaves
\* isResting false and reports the conflict.
C3_StartConflict ==
  [][ (lastCall'.op = "startWorkout" /\ workoutInstance # Null) =>
        /\ UNCHANGED wearerVars
        /\ isResting' = FALSE
        /\ lastCall'.console = "There is a workout in progress" ]_vars

C3_Witness ==
  /\ lastCall.op = "startWorkout"
  /\ lastCall.console = "There is a workout in progress"
  /\ workoutInstance # Null
  /\ workoutInstance[1].steps > 0

\* C4: an endWorkout call made when no workout is in progress returns no
\* summary and changes no field of the wearer.
C4_EndConflict ==
  [][ (lastCall'.op = "endWorkout" /\ workoutInstance = Null) =>
        /\ UNCHANGED wearerVars
        /\ lastCall'.summary = Null
        /\ lastCall'.console = "There is no workout in progress" ]_vars

C4_Witness ==
  /\ lastCall.op = "endWorkout"
  /\ lastCall.summary = Null
  /\ workoutInstance = Null
  /\ Len(stepsData.rawData) > 0

\* C5: the summary returned by endWorkout carries the type of the fixture the
\* session was started with and the sums of that fixture's calorie and step
\* samples, 0 for an absent list; nothing of an earlier session is included.
C5_SummaryTotals ==
  [][ (lastCall'.op = "endWorkout" /\ workoutInstance # Null) =>
        /\ lastCall'.summary # Null
        /\ LET simulatedWatchData == workoutInstance[1].simulatedWatchData
               summary == lastCall'.summary[1]
           IN  /\ summary.workoutType = simulatedWatchData.workoutType
               /\ summary.caloriesBurned = SampleTotal(simulatedWatchData, "caloriesBurnedData")
               /\ summary.steps = SampleTotal(simulatedWatchData, "stepsData") ]_vars

\* a second session whose fixture has no calorie list, after one that had
C5_Witness ==
  /\ lastCall.op = "endWorkout"
  /\ lastCall.summary # Null
  /\ Len(caloriesBurnedData.rawData) = 2
  /\ caloriesBurnedData.rawData[1].caloriesBurned > 0
  /\ lastCall.summary[1].caloriesBurned = 0
  /\ lastCall.summary[1].steps = 3

\* C6: storeHeartRateData appends its sample to the active stream when a
\* workout is in progress and to the resting stream otherwise, and no
\* operation removes, reorders or moves an entry of either stream.
C6_HeartRateClassification ==
  [][ /\ IsPrefix(heartRateData.rawData.resting, heartRateData'.rawData.resting)
      /\ IsPrefix(heartRateData.rawData.active, heartRateData'.rawData.active)
      /\ (lastCall'.op = "storeHeartRateData" =>
            \E sample \in HeartRateSamples :
              LET entry == [timeWhenMeasured |-> sample.timeWhenMeasured,
                            heartRate |-> sample.heartRate,
                            daysSinceUnixEpoch |-> DayOf(sample.timeWhenMeasured)]
              IN  IF workoutInstance # Null
                  THEN /\ heartRateData'.rawData.active = Append(heartRateData.rawData.active, entry)
                       /\ heartRateData'.rawData.resting = heartRateData.rawData.resting
                  ELSE /\ heartRateData'.rawData.resting = Append(heartRateData.rawData.resting, entry)
                       /\ heartRateData'.rawData.active = heartRateData.rawData.active) ]_vars

\* a sample was stored during a workout, after one stored at rest
C6_Witness ==
  /\ lastCall.op = "storeHeartRateData"
  /\ workoutInstance # Null
  /\ Len(heartRateData.rawData.active) = 1
  /\ Len(heartRateData.rawData.resting) = 1

-----------------------------------------------------------------------------
(* Properties of the step statistics, checked under SpecSteps *)

NonNegative(summary) == \A i \in DOMAIN summary : summary[i].steps >= 0

WithinBound(minOrMax, result, total) ==
  IF minOrMax = "min" THEN result <= total ELSE result >= total

\* C7: on a strictly day-ordered step summary with non-negative values, the
\* result of getMinMaxSteps(N, "min") is at most, and the result of
\* getMinMaxSteps(N, "max") at least, the sum of every window the scan
\* completed.
C7_MinMaxBound ==
  ( /\ lastCall.op = "getMinMaxSteps"
    /\ StrictlyIncreasing(stepsData.summary)
    /\ NonNegative(stepsData.summary) ) =>
    \A i \in DOMAIN lastCall.windows :
      WithinBound(lastCall.minOrMax, lastCall.value.num, lastCall.windows[i].total)

\* C8 (checked under SpecQueries): on a wearer without any completed workout or heart-rate sample every
\* one of the four queries returns 0.
C8_EmptyInput ==
  ( /\ lastCall.op \in {"getMinMaxSteps", "getAverageNumberOfSteps",
                        "getAverageRestingHeartRate", "getAverageCaloriesBurnedPerWorkout"}
    /\ stepsData.rawData = <<>> /\ caloriesBurnedData.rawData = <<>>
    /\ heartRateData.rawData.resting = <<>> /\ heartRateData.rawData.active = <<>> ) =>
    /\ lastCall.outcome = "number"
    /\ lastCall.value = Num(0)

\* C9: when the steps summary holds exactly one bucket, getMinMaxSteps
\* returns that bucket's steps for "min" and for "max", whatever N.
C9_SingleBucket ==
  ( /\ lastCall.op = "getMinMaxSteps"
    /\ Len(stepsData.summary) = 1 ) =>
    /\ lastCall.outcome = "number"
    /\ lastCall.value = Num(stepsData.summary[1].steps)

\* C10: on a strictly day-ordered step summary of at least two buckets in
\* which the scan completes no window for N (in particular when the first and
\* the last bucket are fewer than N - 1 days apart), getMinMaxSteps(N, "min"),
\* getMinMaxSteps(N, "max") and getAverageNumberOfSteps(N) return 0.
C10_NoCompleteWindow ==
  LET summary == stepsData.summary
  IN  ( /\ lastCall.op \in {"getMinMaxSteps", "getAverageNumberOfSteps"}
        /\ Len(summary) >= 2
        /\ StrictlyIncreasing(summary) ) =>
        /\ (summary[Len(summary)].daysSinceUnixEpoch - summary[1].daysSinceUnixEpoch
              < lastCall.nDayPeriod - 1) => lastCall.windows = <<>>
        /\ lastCall.windows = <<>> =>
             (lastCall.outcome = "number" /\ lastCall.value = Num(0))

\* three buckets with steps on days too close for the period asked
C10_Witness ==
  /\ lastCall.op = "getMinMaxSteps"
  /\ lastCall.minOrMax = "max"
  /\ Len(stepsData.summary) = 3
  /\ \A i \in DOMAIN stepsData.summary : stepsData.summary[i].steps > 0
  /\ stepsData.summary[3].daysSinceUnixEpoch - stepsData.summary[1].daysSinceUnixEpoch
       < lastCall.nDayPeriod - 1
  /\ lastCall.windows = <<>>
  /\ lastCall.value = Num(0)

-----------------------------------------------------------------------------
(* Periods of the two-pointer scans *)

\* the indices i whose bucket and the next one lie on calendar-adjacent days
AdjacentPairs(summary) ==
  { i \in 1..(Len(summary) - 1) :
      summary[i + 1].daysSinceUnixEpoch = summary[i].daysSinceUnixEpoch + 1 }

PairSum(summary, i) == summary[i].steps + summary[i + 1].steps

\* the sum of the sums of all calendar-adjacent pairs
TotalOfPairs(summary) ==
  Sum([i \in 1..(Len(summary) - 1) |->
         IF i \in AdjacentPairs(summary) THEN PairSum(summary, i) ELSE 0])

\* the steps of the buckets first..last (1-based) of a summary
StepsBetween(summary, first, last) ==
  Sum([k \in 1..(last - first + 1) |-> summary[first + k - 1].steps])

\* C11: on a strictly day-ordered step summary with at least one pair of
\* calendar-adjacent buckets, getMinMaxSteps(2, "min") is the smallest and
\* getMinMaxSteps(2, "max") the largest sum of two calendar-adjacent buckets,
\* and getAverageNumberOfSteps(2) is the mean of all those sums; pairs
\* separated by a missing day count for nothing.
C11_TwoDayStatistics ==
  LET summary == stepsData.summary
      pairs == AdjacentPairs(summary)
  IN  ( /\ lastCall.op \in {"getMinMaxSteps", "getAverageNumberOfSteps"}
        /\ lastCall.nDayPeriod = 2
        /\ StrictlyIncreasing(summary)
        /\ pairs # {} ) =>
        /\ lastCall.outcome = "number"
        /\ lastCall.op = "getMinMaxSteps" =>
             /\ \E i \in pairs : lastCall.value = Num(PairSum(summary, i))
             /\ \A i \in pairs :
                  WithinBound(lastCall.minOrMax, lastCall.value.num, PairSum(summary, i))
        /\ lastCall.op = "getAverageNumberOfSteps" =>
             /\ lastCall.value.den > 0
             /\ lastCall.value.num * Cardinality(pairs)
                  = TotalOfPairs(summary) * lastCall.value.den

\* C12: when the first and the last bucket of a strictly day-ordered step
\* summary are exactly N-1 days apart, getMinMaxSteps(N, "min"),
\* getMinMaxSteps(N, "max") and getAverageNumberOfSteps(N) all return the sum
\* of all the bucket values, whether or not days are missing in between.
C12_SpanWithMissingDays ==
  LET summary == stepsData.summary
  IN  ( /\ lastCall.op \in {"getMinMaxSteps", "getAverageNumberOfSteps"}
        /\ Len(summary) >= 2
        /\ StrictlyIncreasing(summary)
        /\ summary[Len(summary)].daysSinceUnixEpoch - summary[1].daysSinceUnixEpoch
             = lastCall.nDayPeriod - 1 ) =>
        /\ lastCall.outcome = "number"
        /\ lastCall.value = Num(StepsBetween(summary, 1, Len(summary)))

\* a five day period over four buckets with the third day missing
C12_Witness ==
  LET summary == stepsData.summary
  IN  /\ lastCall.op = "getMinMaxSteps"
      /\ lastCall.minOrMax = "min"
      /\ lastCall.nDayPeriod = 5
      /\ Len(summary) = 4
      /\ summary[2].daysSinceUnixEpoch = summary[1].daysSinceUnixEpoch + 1
      /\ summary[3].daysSinceUnixEpoch = summary[1].daysSinceUnixEpoch + 3
      /\ summary[4].daysSinceUnixEpoch = summary[1].daysSinceUnixEpoch + 4
      /\ \A i \in DOMAIN summary : summary[i].steps > 0
      /\ lastCall.value = Num(StepsBetween(summary, 1, 4))

\* the sum, over the periods a scan completed, of the steps of the buckets
\* slowPtr..fastPtr (0-based pointers) of each
RECURSIVE TotalOfPeriods(_, _)
TotalOfPeriods(summary, windows) ==
  IF windows = <<>> THEN 0
  ELSE StepsBetween(summary, Head(windows).slowPtr + 1, Head(windows).fastPtr + 1)
         + TotalOfPeriods(summary, Tail(windows))

\* C13: whenever the scan of getAverageNumberOfSteps(N) completed at least
\* one period, the result is the sum of the sums of the completed periods
\* divided by the number of completed periods.
C13_AverageReduction ==
  ( /\ lastCall.op = "getAverageNumberOfSteps"
    /\ lastCall.outcome = "number"
    /\ lastCall.windows # <<>> ) =>
    /\ lastCall.value.den > 0
    /\ lastCall.value.num * Len(lastCall.windows)
         = TotalOfPeriods(stepsData.summary, lastCall.windows) * lastCall.value.den

\* two completed periods whose mean is not a whole number
C13_Witness ==
  /\ lastCall.op = "getAverageNumberOfSteps"
  /\ Len(lastCall.windows) = 2
  /\ lastCall.value.den = 2
  /\ lastCall.value.num * 2
       = TotalOfPeriods(stepsData.summary, lastCall.windows) * lastCall.value.den

\* n >= 2 buckets on n consecutive calendar days
GapFree(summary) ==
  \A i \in 1..(Len(summary) - 1) :
    summary[i + 1].daysSinceUnixEpoch = summary[i].daysSinceUnixEpoch + 1

\* C14 as stated: for n >= 2 buckets on n consecutive calendar days,
\* getAverageNumberOfSteps(n) is the simple mean of the n bucket values, their
\* sum divided by n.
C14_FullSpanMean ==
  LET summary == stepsData.summary
  IN  ( /\ lastCall.op = "getAverageNumberOfSteps"
        /\ Len(summary) >= 2
        /\ GapFree(summary)
        /\ lastCall.nDayPeriod = Len(summary) ) =>
        /\ lastCall.outcome = "number"
        /\ lastCall.value.den > 0
        /\ lastCall.value.num * Len(summary)
             = StepsBetween(summary, 1, Len(summary)) * lastCall.value.den

\* C14 amended: for n >= 2 buckets on n consecutive calendar days,
\* getAverageNumberOfSteps(n) is the sum of the n bucket values, the sum of
\* the one complete n day period.
C14_FullSpanSum ==
  LET summary == stepsData.summary
  IN  ( /\ lastCall.op = "getAverageNumberOfSteps"
        /\ Len(summary) >= 2
        /\ GapFree(summary)
        /\ lastCall.nDayPeriod = Len(summary) ) =>
        /\ lastCall.outcome = "number"
        /\ lastCall.value = Num(StepsBetween(summary, 1, Len(summary)))

\* four consecutive days with steps on each, queried over a four day period
C14_Witness ==
  LET summary == stepsData.summary
  IN  /\ lastCall.op = "getAverageNumberOfSteps"
      /\ Len(summary) = 4
      /\ GapFree(summary)
      /\ lastCall.nDayPeriod = 4
      /\ \A i \in DOMAIN summary : summary[i].steps > 0
      /\ lastCall.value = Num(StepsBetween(summary, 1, 4))

-----------------------------------------------------------------------------
(* Heart-rate statistics: a wearer constructed with a batch of samples, as
   in TestRunner.testHeartRateStats *)

BatchRates == {60, 70, 75}

\* batches that start early in a day, and batches whose third sample is the
\* first of the next day
BatchStartTimes == {0, secondsPerDay - 2 * secondsPerSample, secondsPerDay + secondsPerSample}

HeartRateBatches ==
  { [heartRateData |-> [startTime |-> t, heartRate |-> hr]] :
      t \in BatchStartTimes, hr \in UNION { [1..k -> BatchRates] : k \in 1..MaxBatch } }

InitHeartRate ==
  \E simulatedData \in HeartRateBatches :
    LET this == Wearer(<<simulatedData>>)
    IN  /\ workoutInstance = this.workoutInstance
        /\ stepsData = this.stepsData
        /\ caloriesBurnedData = this.caloriesBurnedData
        /\ heartRateData = this.heartRateData
        /\ isResting = this.isResting
        /\ lastCall = NoCall

NextHeartRate ==
  \/ \E newHeartRateData \in HeartRateSamples : StoreHeartRateData(newHeartRateData)
  \/ \E nDayPeriod \in 1..(MaxDay + 1) : GetAverageRestingHeartRate(nDayPeriod)

SpecHeartRate == InitHeartRate /\ [][NextHeartRate]_vars

\* the entries a batch puts on a stream: one per bpm value, a minute apart
BatchEntries(batch) ==
  [i \in 1..Len(batch.heartRate) |->
     [timeWhenMeasured |-> batch.startTime + (i - 1) * secondsPerSample,
      heartRate |-> batch.heartRate[i],
      daysSinceUnixEpoch |-> DayOf(batch.startTime + (i - 1) * secondsPerSample)]]

SameDay(batch) ==
  DayOf(batch.startTime)
    = DayOf(batch.startTime + (Len(batch.heartRate) - 1) * secondsPerSample)

\* C15: a wearer constructed with a heart-rate batch of k >= 1 samples that
\* all fall on one calendar day holds exactly those k entries on the resting
\* stream and none on the active stream, and getAverageRestingHeartRate(1)
\* then returns the arithmetic mean of the k bpm values.
C15_SameDayRestingHeartRate ==
  /\ lastCall.op = "new Wearer" =>
       \E simulatedData \in HeartRateBatches :
         /\ heartRateData.rawData.resting = BatchEntries(simulatedData.heartRateData)
         /\ heartRateData.rawData.active = <<>>
  /\ \A simulatedData \in HeartRateBatches :
       ( /\ lastCall.op = "getAverageRestingHeartRate"
         /\ lastCall.nDayPeriod = 1
         /\ SameDay(simulatedData.heartRateData)
         /\ heartRateData.rawData.resting = BatchEntries(simulatedData.heartRateData)
         /\ heartRateData.rawData.active = <<>> ) =>
         /\ lastCall.outcome = "number"
         /\ lastCall.value.den > 0
         /\ lastCall.value.num * Len(simulatedData.heartRateData.heartRate)
              = Sum(simulatedData.heartRateData.heartRate) * lastCall.value.den

\* a batch of 60, 70 and 75 bpm on one day, whose mean is 205/3
C15_Witness ==
  /\ lastCall.op = "getAverageRestingHeartRate"
  /\ lastCall.nDayPeriod = 1
  /\ Len(heartRateData.rawData.resting) = 3
  /\ heartRateData.rawData.active = <<>>
  /\ \A i \in 1..3 : heartRateData.rawData.resting[i].daysSinceUnixEpoch = 0
  /\ heartRateData.rawData.resting[1].heartRate = 60
  /\ heartRateData.rawData.resting[2].heartRate = 70
  /\ heartRateData.rawData.resting[3].heartRate = 75
  /\ lastCall.value = [num |-> 205, den |-> 3]

-----------------------------------------------------------------------------
(* Calorie statistics: workouts recorded in chronological order on a fresh
   wearer, then queried, as in TestRunner.testCaloriesStats *)

\* a walk that burns 2 + 3 calories or a run that burns 4, on each day
CalorieFixtures ==
  UNION { { WithField([workoutId |-> 1, workoutType |-> "walk",
                       startTime |-> d * secondsPerDay + 300,
                       endTime |-> d * secondsPerDay + 900], "caloriesBurnedData", <<2, 3>>),
            WithField([workoutId |-> 1, workoutType |-> "run",
                       startTime |-> d * secondsPerDay + 300,
                       endTime |-> d * secondsPerDay + 900], "caloriesBurnedData", <<4>>) } :
          d \in 0..MaxStatsDay }

CalorieHistories ==
  UNION { { h \in [1..k -> CalorieFixtures] : Chronological(h) } : k \in 0..MaxHistory }

InitCalories ==
  \E history \in CalorieHistories :
    LET this == Replay(Wearer(Null), history)
    IN  /\ workoutInstance = this.workoutInstance
        /\ stepsData = this.stepsData
        /\ caloriesBurnedData = this.caloriesBurnedData
        /\ heartRateData = this.heartRateData
        /\ isResting = this.isResting
        /\ lastCall = NoCall

NextCalories ==
  \E nDayPeriod \in NDayPeriods, workoutType \in WorkoutTypes :
    GetAverageCaloriesBurnedPerWorkout(nDayPeriod, workoutType)

SpecCalories == InitCalories /\ [][NextCalories]_vars

\* the calorie day buckets of one workout type, as the query filters them
BucketsOfType(workoutType) ==
  SelectSeq(caloriesBurnedData.summary, LAMBDA data : data.workoutType = workoutType)

CaloriesOf(buckets) == Sum([i \in 1..Len(buckets) |-> buckets[i].caloriesBurned])

\* C16: when the calorie day buckets of the queried workout type number at
\* least two and the first and the last of them are exactly N-1 days apart,
\* getAverageCaloriesBurnedPerWorkout(N, type) is the total calories of those
\* buckets divided by their number.
C16_AverageCaloriesOverOneSpan ==
  LET buckets == BucketsOfType(lastCall.workoutType)
  IN  ( /\ lastCall.op = "getAverageCaloriesBurnedPerWorkout"
        /\ Len(buckets) >= 2
        /\ buckets[Len(buckets)].daysSinceUnixEpoch - buckets[1].daysSinceUnixEpoch
             = lastCall.nDayPeriod - 1 ) =>
        /\ lastCall.outcome = "number"
        /\ lastCall.value.den > 0
        /\ lastCall.value.num * Len(buckets) = CaloriesOf(buckets) * lastCall.value.den

-----------------------------------------------------------------------------
(* Failures of the queries *)

StatisticsQueries ==
  {"getMinMaxSteps", "getAverageNumberOfSteps", "getAverageRestingHeartRate",
   "getAverageCaloriesBurnedPerWorkout"}

\* C17: in every state reached by startWorkout, endWorkout and
\* storeHeartRateData calls, each of the four queries, called with any N >= 2
\* and any workout type, returns a number: it does not throw and its result
\* is not the quotient of a division by zero.
C17_NoFatalErrors ==
  ( /\ lastCall.op \in StatisticsQueries
    /\ lastCall.nDayPeriod >= 2 ) =>
    /\ lastCall.outcome = "number"
    /\ lastCall.value.den # 0

-----------------------------------------------------------------------------
(* The periods completed by the step scans *)

StepScans == {"getMinMaxSteps", "getAverageNumberOfSteps"}

\* the day difference between the right and the left bucket of a period
DaysSpanned(summary, window) ==
  summary[window.fastPtr + 1].daysSinceUnixEpoch - summary[window.slowPtr + 1].daysSinceUnixEpoch

\* C18 as stated: every period [slowPtr, fastPtr] completed by the scan of
\* getMinMaxSteps or getAverageNumberOfSteps has a day difference of N-1 and
\* consists of exactly N buckets on N consecutive calendar days.
C18_NoInternalGap ==
  LET summary == stepsData.summary
  IN  ( /\ lastCall.op \in StepScans
        /\ StrictlyIncreasing(summary) ) =>
        \A w \in DOMAIN lastCall.windows :
          LET window == lastCall.windows[w]
          IN  /\ DaysSpanned(summary, window) = lastCall.nDayPeriod - 1
              /\ window.fastPtr - window.slowPtr + 1 = lastCall.nDayPeriod
              /\ \A i \in (window.slowPtr + 1)..window.fastPtr :
                   summary[i + 1].daysSinceUnixEpoch = summary[i].daysSinceUnixEpoch + 1

\* C18 amended: every period [slowPtr, fastPtr] completed by the scan has a
\* day difference of exactly N-1 between its right and its left bucket, holds
\* between 2 and N buckets, and reduces the sum of the buckets
\* slowPtr..fastPtr; days between the two may be missing.
C18_SpansNDays ==
  LET summary == stepsData.summary
  IN  ( /\ lastCall.op \in StepScans
        /\ StrictlyIncreasing(summary) ) =>
        \A w \in DOMAIN lastCall.windows :
          LET window == lastCall.windows[w]
          IN  /\ window.slowPtr >= 0
              /\ window.fastPtr < Len(summary)
              /\ DaysSpanned(summary, window) = lastCall.nDayPeriod - 1
              /\ window.fastPtr - window.slowPtr + 1 \in 2..lastCall.nDayPeriod
              /\ window.total = StepsBetween(summary, window.slowPtr + 1, window.fastPtr + 1)

\* a completed four day period of three buckets, one day of it missing
C18_Witness ==
  LET summary == stepsData.summary
  IN  /\ lastCall.op = "getAverageNumberOfSteps"
      /\ lastCall.nDayPeriod = 4
      /\ Len(lastCall.windows) = 1
      /\ lastCall.windows[1].slowPtr = 0
      /\ lastCall.windows[1].fastPtr = 2
      /\ summary[3].daysSinceUnixEpoch = summary[1].daysSinceUnixEpoch + 3
      /\ \A i \in 1..3 : summary[i].steps > 0

\* buckets first..last (1-based) lie on consecutive calendar days
ConsecutiveDays(summary, first, last) ==
  \A i \in first..(last - 1) :
    summary[i + 1].daysSinceUnixEpoch = summary[i].daysSinceUnixEpoch + 1

\* C19: on a strictly day-ordered step summary, for every i such that the
\* buckets i..i+N-1 lie on N consecutive calendar days the scan completes a
\* period with left edge i whose sum is the sum of those N buckets; a
\* gap-free summary of n >= N days gives exactly n-N+1 completed periods.
C19_EverySubWindowFound ==
  LET summary == stepsData.summary
      n == lastCall.nDayPeriod
  IN  ( /\ lastCall.op \in StepScans
        /\ StrictlyIncreasing(summary) ) =>
        /\ \A i \in 1..(Len(summary) - n + 1) :
             ConsecutiveDays(summary, i, i + n - 1) =>
               \E w \in DOMAIN lastCall.windows :
                 /\ lastCall.windows[w].slowPtr = i - 1
                 /\ lastCall.windows[w].fastPtr = i + n - 2
                 /\ lastCall.windows[w].total = StepsBetween(summary, i, i + n - 1)
        /\ (GapFree(summary) /\ Len(summary) >= n) =>
             Len(lastCall.windows) = Len(summary) - n + 1

\* four consecutive days with alternating totals: three two day periods of
\* the same sum
C19_Witness ==
  LET summary == stepsData.summary
  IN  /\ lastCall.op = "getMinMaxSteps"
      /\ lastCall.nDayPeriod = 2
      /\ Len(summary) = 4
      /\ GapFree(summary)
      /\ summary[1].steps = summary[3].steps
      /\ summary[2].steps = summary[4].steps
      /\ summary[1].steps # summary[2].steps
      /\ Len(lastCall.windows) = 3
      /\ \A w \in 1..3 : lastCall.windows[w].total = summary[1].steps + summary[2].steps

\* C20 as stated: the periods completed by one scan are pairwise disjoint,
\* no bucket adds its value to more than one completed period.
C20_NonOverlapping ==
  LET summary == stepsData.summary
  IN  ( /\ lastCall.op \in StepScans
        /\ StrictlyIncreasing(summary) ) =>
        \A v, w \in DOMAIN lastCall.windows :
          v < w => lastCall.windows[v].fastPtr < lastCall.windows[w].slowPtr

\* a bucket exactly N-1 days after bucket first (1-based) exists
PeriodFrom(summary, first, nDayPeriod) ==
  \E j \in (first + 1)..Len(summary) :
    summary[j].daysSinceUnixEpoch - summary[first].daysSinceUnixEpoch = nDayPeriod - 1

\* C20 amended: the periods completed by one scan have strictly increasing
\* left edges and strictly increasing right edges, so that each left edge
\* completes at most one period, but they are not disjoint: when a bucket lies
\* exactly N-1 days after the bucket that follows a period's left edge, the
\* next completed period starts at that following bucket and shares with the
\* period every bucket but its left edge.
C20_DistinctOverlapping ==
  LET summary == stepsData.summary
      windows == lastCall.windows
  IN  ( /\ lastCall.op \in StepScans
        /\ StrictlyIncreasing(summary) ) =>
        /\ \A v, w \in DOMAIN windows :
             v < w => /\ windows[v].slowPtr < windows[w].slowPtr
                      /\ windows[v].fastPtr < windows[w].fastPtr
        /\ \A v \in DOMAIN windows :
             PeriodFrom(summary, windows[v].slowPtr + 2, lastCall.nDayPeriod) =>
               /\ v < Len(windows)
               /\ windows[v + 1].slowPtr = windows[v].slowPtr + 1
               /\ windows[v + 1].slowPtr <= windows[v].fastPtr

\* two three day periods over four consecutive days: the two middle buckets
\* are summed twice
C20_Witness ==
  LET summary == stepsData.summary
  IN  /\ lastCall.op = "getAverageNumberOfSteps"
      /\ lastCall.nDayPeriod = 3
      /\ Len(summary) = 4
      /\ GapFree(summary)
      /\ \A i \in 1..4 : summary[i].steps > 0
      /\ Len(lastCall.windows) = 2
      /\ lastCall.windows[1].fastPtr = 2
      /\ lastCall.windows[2].slowPtr = 1
      /\ lastCall.value = Num(summary[2].steps + summary[3].steps + summary[1].steps)

-----------------------------------------------------------------------------
(* Heart-rate averages over several days *)

InTimeOrder(samples) ==
  \A i \in 1..(Len(samples) - 1) :
    samples[i].timeWhenMeasured <= samples[i + 1].timeWhenMeasured

DaysOf(samples) == { samples[i].daysSinceUnixEpoch : i \in DOMAIN samples }

\* the mean of the bpm values of all the samples of one day
DayMean(samples, day) ==
  LET ofDay == SelectSeq(samples, LAMBDA sample : sample.daysSinceUnixEpoch = day)
  IN  Div(Sum([i \in 1..Len(ofDay) |-> ofDay[i].heartRate]), Len(ofDay))

RECURSIVE TotalOfDayMeans(_, _)
TotalOfDayMeans(samples, days) ==
  IF days = {} THEN Num(0)
  ELSE LET day == CHOOSE d \in days : TRUE
       IN  RatAdd(DayMean(samples, day), TotalOfDayMeans(samples, days \ {day}))

MeanOfDayMeans(samples) ==
  RatDivInt(TotalOfDayMeans(samples, DaysOf(samples)), Cardinality(DaysOf(samples)))

\* C21: for resting samples recorded in chronological order over any number
\* of days, getAverageRestingHeartRate returns the mean, over the days with
\* samples, of the mean of all the resting samples of the day.
C21_TwoLevelMean ==
  LET resting == heartRateData.rawData.resting
  IN  ( /\ lastCall.op = "getAverageRestingHeartRate"
        /\ resting # <<>>
        /\ InTimeOrder(resting) ) =>
        /\ lastCall.outcome = "number"
        /\ lastCall.value = MeanOfDayMeans(resting)

-----------------------------------------------------------------------------
(* Properties of the stores, checked under Spec *)

\* the workout in progress falls on the day of the last calorie bucket and
\* its type is not the bucket's tag
MergesOtherType ==
  /\ workoutInstance # Null
  /\ caloriesBurnedData.summary # <<>>
  /\ LET last == caloriesBurnedData.summary[Len(caloriesBurnedData.summary)]
     IN  /\ last.daysSinceUnixEpoch = DayOf(workoutInstance[1].startTime)
         /\ last.workoutType # workoutInstance[1].workoutType

\* C22 as stated: when endWorkout merges a workout into a same-day calorie
\* bucket tagged with another type, the bucket's tag becomes the type of the
\* merged workout.
C22_TagLastWriteWins ==
  [][ (lastCall'.op = "endWorkout" /\ MergesOtherType) =>
        LET n == Len(caloriesBurnedData.summary)
        IN  /\ Len(caloriesBurnedData'.summary) = n
            /\ caloriesBurnedData'.summary[n].workoutType = workoutInstance[1].workoutType ]_vars

\* C22 amended: when endWorkout merges a workout into a same-day calorie
\* bucket tagged with another type, the workout's calories are added to the
\* bucket and the bucket keeps the tag it was created with.
C22_TagFirstWriteWins ==
  [][ (lastCall'.op = "endWorkout" /\ MergesOtherType) =>
        LET n == Len(caloriesBurnedData.summary)
        IN  /\ Len(caloriesBurnedData'.summary) = n
            /\ caloriesBurnedData'.summary[n].workoutType
                 = caloriesBurnedData.summary[n].workoutType
            /\ caloriesBurnedData'.summary[n].caloriesBurned
                 = caloriesBurnedData.summary[n].caloriesBurned
                     + workoutInstance[1].caloriesBurned ]_vars

\* a run was merged into the bucket of a walk of the same day
C22_Witness ==
  /\ lastCall.op = "endWorkout"
  /\ lastCall.summary # Null
  /\ lastCall.summary[1].workoutType = "run"
  /\ lastCall.summary[1].caloriesBurned > 0
  /\ Len(caloriesBurnedData.rawData) = 2
  /\ Len(caloriesBurnedData.summary) = 1
  /\ caloriesBurnedData.summary[1].workoutType = "walk"
  /\ caloriesBurnedData.summary[1].caloriesBurned = lastCall.summary[1].caloriesBurned

-----------------------------------------------------------------------------
(* Properties of the calorie statistics, checked under SpecCalories *)

\* the buckets after bucket first (1-based) that lie fewer than N-1 days
\* after it: the buckets a scan from that left edge folds without completing
FoldedFrom(buckets, first, nDayPeriod) ==
  { j \in (first + 1)..Len(buckets) :
      buckets[j].daysSinceUnixEpoch - buckets[first].daysSinceUnixEpoch < nDayPeriod - 1 }

\* no bucket after bucket first lies N-1 days or more after it: a scan from
\* that left edge runs off the end of the list
RunsOffEnd(buckets, first, nDayPeriod) ==
  FoldedFrom(buckets, first, nDayPeriod) = (first + 1)..Len(buckets)

\* the last left edge a scan of a non-empty strictly day-ordered list visits
LastLeftEdge(buckets, nDayPeriod) ==
  CHOOSE first \in 1..Len(buckets) :
    /\ RunsOffEnd(buckets, first, nDayPeriod)
    /\ \A earlier \in 1..(first - 1) : ~RunsOffEnd(buckets, earlier, nDayPeriod)

\* 1 for the first bucket plus one per fold step of the whole scan
DataPointsFolded(buckets, nDayPeriod) ==
  1 + Sum([first \in 1..LastLeftEdge(buckets, nDayPeriod) |->
             Cardinality(FoldedFrom(buckets, first, nDayPeriod))])

RECURSIVE CaloriesOfPeriods(_, _)
CaloriesOfPeriods(buckets, windows) ==
  IF windows = <<>> THEN 0
  ELSE CaloriesOf(SubSeq(buckets, Head(windows).slowPtr + 1, Head(windows).fastPtr + 1))
         + CaloriesOfPeriods(buckets, Tail(windows))

\* C23: when at least one period completes, getAverageCaloriesBurnedPerWorkout
\* returns the sum of the sums of the completed periods divided by the count
\* of data points folded during the whole scan (1 for the first bucket plus
\* one per fold step, never reset when the left edge advances).
C23_CalorieDivisor ==
  LET buckets == BucketsOfType(lastCall.workoutType)
  IN  ( /\ lastCall.op = "getAverageCaloriesBurnedPerWorkout"
        /\ lastCall.outcome = "number"
        /\ lastCall.windows # <<>> ) =>
        /\ lastCall.value.den > 0
        /\ lastCall.value.num * DataPointsFolded(buckets, lastCall.nDayPeriod)
             = CaloriesOfPeriods(buckets, lastCall.windows) * lastCall.value.den

\* four buckets of one type in one four day period: one completed period,
\* five data points counted
C23_Witness ==
  LET buckets == BucketsOfType(lastCall.workoutType)
  IN  /\ lastCall.op = "getAverageCaloriesBurnedPerWorkout"
      /\ lastCall.nDayPeriod = 4
      /\ Len(buckets) = 4
      /\ Len(lastCall.windows) = 1
      /\ DataPointsFolded(buckets, 4) = 5
      /\ lastCall.value = Div(CaloriesOf(buckets), 5)

-----------------------------------------------------------------------------
(* Properties of the session and of the raw records, checked under Spec *)

\* C24: every successful endWorkout, whatever the workout type, clears the
\* session and appends exactly one raw record, the returned summary, to the
\* rawData of the steps store and to the rawData of the calories store; no
\* operation modifies or removes a raw record already stored.
C24_FoldAndRetain ==
  [][ /\ IsPrefix(stepsData.rawData, stepsData'.rawData)
      /\ IsPrefix(caloriesBurnedData.rawData, caloriesBurnedData'.rawData)
      /\ (lastCall'.op = "endWorkout" /\ workoutInstance # Null) =>
           /\ workoutInstance' = Null
           /\ lastCall'.summary # Null
           /\ stepsData'.rawData = Append(stepsData.rawData, lastCall'.summary[1])
           /\ caloriesBurnedData'.rawData
                = Append(caloriesBurnedData.rawData, lastCall'.summary[1]) ]_vars

\* a run was completed after a walk: both stores hold the two records
C24_Witness ==
  /\ lastCall.op = "endWorkout"
  /\ lastCall.summary # Null
  /\ workoutInstance = Null
  /\ Len(stepsData.rawData) = 2
  /\ Len(caloriesBurnedData.rawData) = 2
  /\ stepsData.rawData[1].workoutType = "walk"
  /\ stepsData.rawData[2] = lastCall.summary[1]
  /\ caloriesBurnedData.rawData[2] = lastCall.summary[1]
  /\ lastCall.summary[1].workoutType = "run"

\* C25: while a workout is in progress its workoutId and endTime are null;
\* they are set only by endWorkout, whose returned summary carries the
\* fixture's workoutId and endTime together with the workoutType and
\* startTime captured at start.
C25_IdentityOnCompletion ==
  /\ [](workoutInstance # Null =>
          /\ workoutInstance[1].workoutId = Null
          /\ workoutInstance[1].endTime = Null)
  /\ [][ (lastCall'.op = "endWorkout" /\ workoutInstance # Null) =>
           LET simulatedWatchData == workoutInstance[1].simulatedWatchData
               summary == lastCall'.summary[1]
           IN  /\ summary.workoutId = <<simulatedWatchData.workoutId>>
               /\ summary.endTime = <<simulatedWatchData.endTime>>
               /\ summary.workoutType = workoutInstance[1].workoutType
               /\ summary.startTime = workoutInstance[1].startTime
               /\ summary.workoutType = simulatedWatchData.workoutType
               /\ summary.startTime = simulatedWatchData.startTime ]_vars

\* a workout started on the second day was completed and identified
C25_Witness ==
  /\ lastCall.op = "endWorkout"
  /\ lastCall.summary # Null
  /\ lastCall.summary[1].workoutId = <<1>>
  /\ lastCall.summary[1].startTime = secondsPerDay
  /\ lastCall.summary[1].endTime = <<secondsPerDay + 600>>
  /\ workoutInstance = Null

\* C26: in every state reached by startWorkout, endWorkout (rejected calls
\* included) and storeHeartRateData, isResting is true exactly when no
\* workout is in progress, and there is at most one session.
C26_RestingFlag ==
  /\ isResting <=> (workoutInstance = Null)
  /\ Len(workoutInstance) <= 1

\* a second startWorkout was rejected during a workout, after an earlier
\* workout had been completed
C26_Witness ==
  /\ lastCall.op = "startWorkout"
  /\ lastCall.console = "There is a workout in progress"
  /\ workoutInstance # Null
  /\ ~isResting
  /\ Len(stepsData.rawData) = 1

-----------------------------------------------------------------------------
(* Workout types in the calorie statistics, checked under SpecCalories *)

\* the wearer that completed, in the same order, only the given workouts
RECURSIVE Completed(_, _)
Completed(this, records) ==
  IF records = <<>> THEN this
  ELSE Completed(storeData(storeData(this, Head(records), "steps"), Head(records), "caloriesBurned"),
                 Tail(records))

\* the history of the wearer with the workouts of other types left out
OnlyType(workoutType) ==
  Completed(Wearer(Null),
            SelectSeq(caloriesBurnedData.rawData, LAMBDA record : record.workoutType = workoutType))

\* C27: getAverageCaloriesBurnedPerWorkout(N, T) depends only on the
\* completed workouts of type T: it returns what it returns for the history
\* with the workouts of the other types left out, so two histories with the
\* same type-T workouts give the same value.
C27_TypeIsolation ==
  lastCall.op = "getAverageCaloriesBurnedPerWorkout" =>
    LET alone == getAverageCaloriesBurnedPerWorkout(OnlyType(lastCall.workoutType),
                                                    lastCall.nDayPeriod, lastCall.workoutType)
    IN  /\ lastCall.outcome = alone.outcome
        /\ lastCall.value = alone.value

-----------------------------------------------------------------------------
(* Invariants of the two stores, checked under Spec *)

FieldTotal(records, field) == Sum([i \in 1..Len(records) |-> records[i][field]])

\* C28: after any sequence of operations, in any time order, the steps of
\* the steps summary add up to the steps of the completed workouts of the
\* steps rawData, and the calories of the calories summary to the calories of
\* the calories rawData.
C28_Conservation ==
  /\ FieldTotal(stepsData.summary, "steps") = FieldTotal(stepsData.rawData, "steps")
  /\ FieldTotal(caloriesBurnedData.summary, "caloriesBurned")
       = FieldTotal(caloriesBurnedData.rawData, "caloriesBurned")

\* two workouts with steps completed against the order of their start times
C28_Witness ==
  /\ lastCall.op = "endWorkout"
  /\ Len(stepsData.rawData) = 2
  /\ stepsData.rawData[1].startTime > stepsData.rawData[2].startTime
  /\ stepsData.rawData[1].steps > 0
  /\ stepsData.rawData[2].steps > 0
  /\ caloriesBurnedData.rawData[2].caloriesBurned > 0
  /\ FieldTotal(stepsData.summary, "steps")
       = stepsData.rawData[1].steps + stepsData.rawData[2].steps

\* the two summaries have the same length and the same day at every position
SameDays(a, b) ==
  /\ Len(a) = Len(b)
  /\ \A i \in DOMAIN a : a[i].daysSinceUnixEpoch = b[i].daysSinceUnixEpoch

\* C29: after any sequence of operations the steps summary and the calories
\* summary have the same length and the same daysSinceUnixEpoch at every
\* position, and both rawData lists have as many records as there were
\* successful endWorkout calls: none at first, one more after each successful
\* endWorkout, unchanged by every other call.
C29_StoreAlignment ==
  /\ stepsData.rawData = <<>> /\ caloriesBurnedData.rawData = <<>>
  /\ [](/\ SameDays(stepsData.summary, caloriesBurnedData.summary)
        /\ Len(stepsData.rawData) = Len(caloriesBurnedData.rawData))
  /\ [][ LET successful == IF lastCall'.op = "endWorkout" /\ workoutInstance # Null
                           THEN 1 ELSE 0
         IN  /\ Len(stepsData'.rawData) = Len(stepsData.rawData) + successful
             /\ Len(caloriesBurnedData'.rawData)
                  = Len(caloriesBurnedData.rawData) + successful ]_vars

\* after two workouts of one day and a rejected endWorkout: two raw records
\* and one bucket in each store
C29_Witness ==
  /\ lastCall.op = "endWorkout"
  /\ lastCall.summary = Null
  /\ Len(stepsData.rawData) = 2
  /\ Len(caloriesBurnedData.rawData) = 2
  /\ Len(stepsData.summary) = 1
  /\ Len(caloriesBurnedData.summary) = 1

-----------------------------------------------------------------------------
(* The control flow of the two-pointer loop, which getMinMaxSteps,
   getAverageNumberOfSteps and getAverageCaloriesBurnedPerWorkout share *)

\* One entry per evaluation of the loop test, in order: the pointers at the
\* test and the 0-based indices the iteration that follows reads the list at
\* (none when the test fails and the loop ends).
RECURSIVE TwoPointerScan(_, _, _, _, _)
TwoPointerScan(list, nDayPeriod, slowPtr, fastPtr, tests) ==
  IF ~(fastPtr < Len(list))
  THEN Append(tests, [slowPtr |-> slowPtr, fastPtr |-> fastPtr, reads |-> {}])
  ELSE
    LET diff == list[fastPtr + 1].daysSinceUnixEpoch - list[slowPtr + 1].daysSinceUnixEpoch
    IN  IF enoughDataCollected(diff, nDayPeriod)
        THEN TwoPointerScan(list, nDayPeriod,
                            nextSlowPtr(slowPtr, fastPtr), nextSlowPtr(slowPtr, fastPtr) + 1,
                            Append(tests, [slowPtr |-> slowPtr, fastPtr |-> fastPtr,
                                           reads |-> {slowPtr, fastPtr,
                                                      nextSlowPtr(slowPtr, fastPtr)}]))
        ELSE IF diff < nDayPeriod
        THEN TwoPointerScan(list, nDayPeriod, slowPtr, fastPtr + 1,
                            Append(tests, [slowPtr |-> slowPtr, fastPtr |-> fastPtr,
                                           reads |-> {slowPtr, fastPtr}]))
        ELSE TwoPointerScan(list, nDayPeriod, slowPtr + 1, slowPtr + 2,
                            Append(tests, [slowPtr |-> slowPtr, fastPtr |-> fastPtr,
                                           reads |-> {slowPtr, fastPtr, slowPtr + 1}]))

\* the loop tests of a query over a list of at least one bucket: slowPtr = 0
\* and fastPtr = 1 after the read of the first bucket
LoopTests(list, nDayPeriod) == TwoPointerScan(list, nDayPeriod, 0, 1, <<>>)

ScanSteps(op, nDayPeriod) ==
  /\ stepsData.summary # <<>>
  /\ lastCall' = [NoCall EXCEPT !.op = op, !.nDayPeriod = nDayPeriod,
                                !.tests = LoopTests(stepsData.summary, nDayPeriod)]
  /\ UNCHANGED wearerVars

ScanCalories(nDayPeriod, workoutType) ==
  LET caloriesBurnedDataList ==
        SelectSeq(caloriesBurnedData.summary, LAMBDA data : data.workoutType = workoutType)
  IN  /\ caloriesBurnedDataList # <<>>
      /\ lastCall' = [NoCall EXCEPT !.op = "getAverageCaloriesBurnedPerWorkout loop",
                                    !.nDayPeriod = nDayPeriod, !.workoutType = workoutType,
                                    !.tests = LoopTests(caloriesBurnedDataList, nDayPeriod)]
      /\ UNCHANGED wearerVars

NextScan ==
  \/ \E nDayPeriod \in NDayPeriods : ScanSteps("getMinMaxSteps loop", nDayPeriod)
  \/ \E nDayPeriod \in NDayPeriods : ScanSteps("getAverageNumberOfSteps loop", nDayPeriod)
  \/ \E nDayPeriod \in NDayPeriods, workoutType \in WorkoutTypes :
       ScanCalories(nDayPeriod, workoutType)

SpecScan == InitCalories /\ [][NextScan]_vars

\* the list the last scan ran over
Scanned ==
  IF lastCall.op = "getAverageCaloriesBurnedPerWorkout loop"
  THEN BucketsOfType(lastCall.workoutType)
  ELSE stepsData.summary

\* C30: on every strictly day-ordered list of at least one bucket and for
\* every N >= 2, the two-pointer loop of the three queries ends, after at most
\* as many tests as there are pairs of buckets plus one, by a test with
\* fastPtr at the length of the list; at every loop test 0 <= slowPtr <
\* fastPtr, and every index read through slowPtr or fastPtr is inside the
\* list.
C30_ScanBounds ==
  ( /\ lastCall.tests # <<>>
    /\ StrictlyIncreasing(Scanned) ) =>
    LET tests == lastCall.tests
        length == Len(Scanned)
    IN  /\ tests[Len(tests)].reads = {}
        /\ tests[Len(tests)].fastPtr = length
        /\ Len(tests) <= (length * (length - 1)) \div 2 + 1
        /\ \A t \in DOMAIN tests :
             /\ 0 <= tests[t].slowPtr
             /\ tests[t].slowPtr < tests[t].fastPtr
             /\ tests[t].fastPtr <= length
             /\ \A index \in tests[t].reads : 0 <= index /\ index < length

\* a scan over four buckets that completed a period, abandoned a left edge
\* and folded a bucket before it ended
C30_Witness ==
  LET tests == lastCall.tests
  IN  /\ lastCall.op = "getMinMaxSteps loop"
      /\ Len(Scanned) = 4
      /\ Len(tests) >= 5
      /\ \E t \in DOMAIN tests : tests[t].reads = {tests[t].slowPtr, tests[t].fastPtr}
      /\ \E t \in 1..(Len(tests) - 1) :
           /\ tests[t + 1].slowPtr = tests[t].slowPtr + 1
           /\ Scanned[tests[t].fastPtr + 1].daysSinceUnixEpoch
                - Scanned[tests[t].slowPtr + 1].daysSinceUnixEpoch = lastCall.nDayPeriod - 1
      /\ \E t \in 1..(Len(tests) - 1) :
           /\ tests[t + 1].slowPtr = tests[t].slowPtr + 1
           /\ Scanned[tests[t].fastPtr + 1].daysSinceUnixEpoch
                - Scanned[tests[t].slowPtr + 1].daysSinceUnixEpoch > lastCall.nDayPeriod - 1

====
